---- MODULE Spec2Model ----
(***************************************************************************)
(* Model of the Gate message facility, GateMessageManager.hh: the registry *)
(* of message types and their levels, the tabulation string, and the       *)
(* macros GateMessage*, GateWarning, GateError and GateGlobalError.        *)
(*                                                                         *)
(* A macro is modelled by what its expansion executes.  An execution is a  *)
(* record x = [out, tab, st]: the events written so far by the call, the   *)
(* tabulation string, and the status of the process.  A statement is an    *)
(* operator from executions to executions that does nothing once the       *)
(* process has stopped, so a macro body is the nesting of its statements   *)
(* in program order.                                                       *)
(***************************************************************************)
EXTENDS Integers, Sequences, FiniteSets, TLC

\* ------------------------------------------------------------------ bounds
\* Largest ordinary level handed to RegisterMessageType / SetMessageLevel.
MaxLevel == 1
\* Largest number of tabulation units IncTab may build up.
MaxTab == 3
\* Largest number of scopes open at once in a nested sequence.
MaxScopes == 2

\* --------------------------------------------------------------- constants
\* unsigned char arguments of RegisterMessageType / SetMessageLevel.
UCharMod == 256
\* Largest unsigned char.
UCharMax == 255
\* default_level of RegisterMessageType.
DefaultLevel == 9
\* Width of one tabulation unit: IncTab appends std::string("   ").
TabUnit == 3
\* std::string::size_type is unsigned: length()-3 wraps around below 3.  The
\* largest size_type is represented by the largest integer of the checker; it
\* is far beyond every length a string of the model reaches, as in the code.
SizeMax == 2147483647
\* What GetMessageLevel answers for a key that is not in the registry.
NotFound == -1

\* ------------------------------------------------------------------ inputs
Keys == {"Core", "Warning"}
Helps == {"h1", "h2"}
\* Level arguments as the caller writes them (an int converted to unsigned char).
LevelArgs == (0..MaxLevel) \cup {UCharMax, UCharMax + 1}
\* Requested levels of messages (the `value' of the macros).
Values == 0..(MaxLevel + 1)
\* Values mAllLevel may have after construction.
AllLevels == {0, MaxLevel}
\* __FILE__ as the sequence of its path components, and __LINE__.
Sites == {[file |-> <<"Gate.cc">>, line |-> 10],
          [file |-> <<"source", "Gate.cc">>, line |-> 20]}
\* The call sites of the message macros.
MessageSites == {[file |-> <<"source", "Gate.cc">>, line |-> 20]}
NoSite == [file |-> <<>>, line |-> 0]
\* The MESSAGE argument of a macro, as the sequence of its streamed pieces.
Payload == <<"msg">>

VARIABLES
  mMessageLevel,   \* std::map<std::string,int>: key -> level
  mMessageHelp,    \* std::map<std::string,std::string>: key -> help
  mAllLevel,       \* int mAllLevel
  tab,             \* the static std::string of GetTab()
  proc,            \* "running", "exited" (exit), "aborted" (G4Exception), "crashed"
  call,            \* the last call: its operation and arguments
  out,             \* the events of the last call, in program order
  ret,             \* what the last call returned (GetMessageLevel), else NotFound
  scopes,          \* the scopes a nested Inc/Dec sequence has open, innermost last
  callers          \* two callers of a balanced scope: where each is, and the
                   \* length of the tabulation string when they started

vars == <<mMessageLevel, mMessageHelp, mAllLevel, tab, proc, call, out, ret,
          scopes, callers>>

\* --------------------------------------------------------------- strings
Min(a, b) == IF a <= b THEN a ELSE b

\* A string of n spaces.
RECURSIVE Spaces(_)
Spaces(n) == IF n <= 0 THEN <<>> ELSE <<" ">> \o Spaces(n - 1)

\* a - b on size_type.
SizeSub(a, b) == IF a >= b THEN a - b ELSE SizeMax - (b - a) + 1

\* std::string::substr(pos, count): out_of_range when pos > size(), else the
\* characters [pos, min(pos + count, size())).
SubstrNoClamp(s, pos, count) ==
  IF pos > Len(s) \/ count > Len(s) - pos
    THEN [thrown |-> TRUE, val |-> <<>>]
    ELSE [thrown |-> FALSE, val |-> SubSeq(s, pos + 1, pos + count)]

Substr(s, pos, count) ==
  IF pos > Len(s)
    THEN [thrown |-> TRUE, val |-> <<>>]
    ELSE [thrown |-> FALSE,
          val |-> SubSeq(s, pos + 1, pos + Min(count, Len(s) - pos))]

\* Conversion of an int argument to unsigned char.
ToSignedChar(n) == ((n + 128) % UCharMod) - 128

ToUChar(n) == n % UCharMod

\* strrchr(__FILE__, '/') ? strrchr(__FILE__, '/') + 1 : __FILE__
ShortFile(file) == IF Len(file) > 1 THEN <<file[Len(file)]>> ELSE file

\* -------------------------------------------------------------- registry
\* static int GetMessageLevel(std::string key)
GetMessageLevelAtLeastAll(key) ==
  IF key \in DOMAIN mMessageLevel
    THEN (IF mMessageLevel[key] > mAllLevel THEN mMessageLevel[key] ELSE mAllLevel)
    ELSE NotFound

GetMessageLevel(key) ==
  IF key \in DOMAIN mMessageLevel THEN mMessageLevel[key] ELSE NotFound

\* std::map operator[] assignment: insert or overwrite.
MapPutIfAbsent(m, k, v) ==
  [x \in (DOMAIN m) \cup {k} |-> IF x \in DOMAIN m THEN m[x] ELSE v]

MapPut(m, k, v) == [x \in (DOMAIN m) \cup {k} |-> IF x = k THEN v ELSE m[x]]

\* static std::string GetSpace(int n): as many spaces as the message level.
GetSpace(n) == Spaces(n)

\* ---------------------------------------------------------------- events
Event(ev, kind, code, space, text, site) ==
  [ev |-> ev, kind |-> kind, code |-> code, space |-> space, text |-> text,
   file |-> site.file, line |-> site.line]

\* std::cout << ... : one event per statement.
Cout(x, kind, code, space, text, site) ==
  IF x.st = "running"
    THEN [x EXCEPT !.out = Append(@, Event("cout", kind, code, space, text, site))]
    ELSE x

\* exit(-1)
Exit(x) ==
  IF x.st = "running"
    THEN [x EXCEPT !.out = Append(@, Event("exit", "", <<>>, <<>>, <<>>, NoSite)),
                   !.st = "exited"]
    ELSE x

\* G4Exception(origin, code, FatalException, " "): the host reports the
\* exception (its origin and its code) on its error channel, then aborts.
G4Exception(x, origin, code) ==
  IF x.st = "running"
    THEN [x EXCEPT !.out = @ \o <<Event("G4cerr", "error", <<>>, <<>>, code, origin),
                                  Event("abort", "", <<>>, <<>>, <<>>, NoSite)>>,
                   !.st = "aborted"]
    ELSE x

\* -------------------------------------------------------------- warnings
\* #define GateWarning(MESSAGE)
GateWarningAlwaysWhere(x, text, site) ==
  LET lev == GetMessageLevel("Warning") IN
  IF lev > 0
    THEN Cout(Cout(x, "warning", <<>>, <<>>, text, NoSite),
              "where", <<>>, <<>>, <<>>, site)
    ELSE x

GateWarningFromZero(x, text, site) ==
  LET lev == GetMessageLevel("Warning") IN
  IF lev >= 0
    THEN LET x1 == Cout(x, "warning", <<>>, <<>>, text, NoSite) IN
         IF lev > 1
           THEN Cout(x1, "where", <<>>, <<>>, <<>>, site)
           ELSE x1
    ELSE x

GateWarning(x, text, site) ==
  LET lev == GetMessageLevel("Warning") IN
  IF lev > 0
    THEN LET x1 == Cout(x, "warning", <<>>, <<>>, text, NoSite) IN
         IF lev > 1
           THEN Cout(x1, "where", <<>>, <<>>, <<>>, site)
           ELSE x1
    ELSE x

\* "message type '"<<key<<"' unknown"
UnknownType(key) == <<"message type '", key, "' unknown">>

\* ------------------------------------------------------------ tabulation
\* A tabulation method has run and left the string t: recorded among the
\* events of the call, so that the order of the statements of a macro shows.
TabCall(x, method, t) ==
  [x EXCEPT !.tab = t,
            !.out = Append(@, Event("tab", method, <<>>, t, <<>>, NoSite))]

\* static void IncTab() { GetTab() += std::string("   "); }
IncTabTwoSpaces(x) ==
  IF x.st = "running" THEN TabCall(x, "IncTab", x.tab \o Spaces(2)) ELSE x

IncTab(x) ==
  IF x.st = "running" THEN TabCall(x, "IncTab", x.tab \o Spaces(TabUnit)) ELSE x

\* static void DecTab() { GetTab() = GetTab().substr(0,GetTab().length()-3); }
\* An exception of substr is caught nowhere: the process ends.
DecTabOneChar(x) ==
  IF x.st = "running"
    THEN LET r == Substr(x.tab, 0, SizeSub(Len(x.tab), 1)) IN
         IF r.thrown THEN [x EXCEPT !.st = "crashed"]
                     ELSE TabCall(x, "DecTab", r.val)
    ELSE x

DecTabFromEnd(x) ==
  IF x.st = "running"
    THEN LET r == Substr(x.tab, SizeSub(Len(x.tab), TabUnit), SizeMax) IN
         IF r.thrown THEN [x EXCEPT !.st = "crashed"]
                     ELSE [x EXCEPT !.tab = r.val]
    ELSE x

DecTab(x) ==
  IF x.st = "running"
    THEN LET r == Substr(x.tab, 0, SizeSub(Len(x.tab), TabUnit)) IN
         IF r.thrown THEN [x EXCEPT !.st = "crashed"]
                     ELSE TabCall(x, "DecTab", r.val)
    ELSE x

\* static void ResetTab() { GetTab() = std::string(""); }
ResetTabOneUnit(x) == DecTab(x)

ResetTab(x) == IF x.st = "running" THEN TabCall(x, "ResetTab", <<>>) ELSE x

\* ---------------------------------------------------------------- macros
\* #define GateOnMessageLevel(key,value): the guard of every message macro.
\* `body' is the execution the guarded block leads to from x.
GateOnMessageLevelStrict(x, key, value, site, body) ==
  LET v == GetMessageLevel(key) IN
  IF v < 0 THEN GateWarning(x, UnknownType(key), site)
  ELSE IF value < v THEN body
  ELSE x

GateOnMessageLevelSilent(x, key, value, site, body) ==
  LET v == GetMessageLevel(key) IN
  IF v < 0 THEN x
  ELSE IF value <= v THEN body
  ELSE x

GateOnMessageLevel(x, key, value, site, body) ==
  LET v == GetMessageLevel(key) IN
  IF v < 0 THEN GateWarning(x, UnknownType(key), site)
  ELSE IF value <= v THEN body
  ELSE x

\* #define GateMessageCode(key, value)  "[" << key << "-" << value << "] "
GateMessageCode(key, value) == <<key, value>>

\* #define GateMessageSpace(value)  GateMessageManager::GetSpace(value)
GateMessageSpace(value) == GetSpace(value)

\* #define GateMessageTab  GateMessageManager::GetTab()
GateMessageTab(x) == x.tab

\* std::cout << GateMessageCode(key,value) << GateMessageSpace(value) << MESSAGE
CoutMessage(x, key, value) ==
  Cout(x, "message", GateMessageCode(key, value), GateMessageSpace(value),
       Payload, NoSite)

\* #define GateMessage(key,value,MESSAGE)
GateMessage(x, key, value, site) ==
  GateOnMessageLevel(x, key, value, site, CoutMessage(x, key, value))

\* #define GateMessageCont(key,value,MESSAGE)
GateMessageCont(x, key, value, site) ==
  GateOnMessageLevel(x, key, value, site,
                     Cout(x, "message", <<>>, <<>>, Payload, NoSite))

\* #define GateMessageInc(key,value,MESSAGE)
GateMessageInc(x, key, value, site) ==
  GateOnMessageLevel(x, key, value, site, IncTab(CoutMessage(x, key, value)))

\* #define GateMessageDec(key,value,MESSAGE)
GateMessageDecAfter(x, key, value, site) ==
  GateOnMessageLevel(x, key, value, site, DecTab(CoutMessage(x, key, value)))

GateMessageDecUngated(x, key, value, site) ==
  GateOnMessageLevel(DecTab(x), key, value, site,
                     CoutMessage(DecTab(x), key, value))

GateMessageDec(x, key, value, site) ==
  GateOnMessageLevel(x, key, value, site, CoutMessage(DecTab(x), key, value))

\* #define GateDecTab(key,value)
GateDecTab(x, key, value, site) ==
  GateOnMessageLevel(x, key, value, site, DecTab(x))

\* #define GateIncTab(key,value)
GateIncTabUngated(x, key, value, site) ==
  GateOnMessageLevel(IncTab(x), key, value, site, IncTab(x))

GateIncTab(x, key, value, site) ==
  GateOnMessageLevel(x, key, value, site, IncTab(x))

\* #define GateResetTab()
GateResetTab(x) == ResetTab(x)

\* ----------------------------------------------------------- fatal errors
\* f_ << __SHORT_FILE__ << " (l."<<__LINE__<<"): "
ErrorOrigin(site) == [file |-> ShortFile(site.file), line |-> site.line]

\* #define GateError(MESSAGE)
GateErrorThroughException(x, site) ==
  Exit(G4Exception(Cout(x, "error", <<>>, <<>>, Payload, ErrorOrigin(site)),
                   ErrorOrigin(site), Payload))

GateErrorExitFirst(x, site) ==
  G4Exception(Cout(Exit(x), "error", <<>>, <<>>, Payload, ErrorOrigin(site)),
              ErrorOrigin(site), Payload)

GateError(x, site) ==
  G4Exception(Exit(Cout(x, "error", <<>>, <<>>, Payload, ErrorOrigin(site))),
              ErrorOrigin(site), Payload)

\* #define GateGlobalError(MESSAGE)
GateGlobalError(x, site) == G4Exception(x, ErrorOrigin(site), Payload)

\* ------------------------------------------------------------------ state
\* The registry is empty and the tabulation string is empty when the process
\* starts; mAllLevel has the value the constructor gave it.
Init ==
  /\ mMessageLevel = <<>>
  /\ mMessageHelp = <<>>
  /\ mAllLevel \in AllLevels
  /\ tab = <<>>
  /\ proc = "running"
  /\ call = [op |-> "none", key |-> "", arg |-> 0, help |-> "", site |-> NoSite]
  /\ out = <<>>
  /\ ret = NotFound
  /\ scopes = <<>>
  /\ callers = [pc |-> <<"start", "start">>, base |-> 0]

\* The execution a call starts from.
Start == [out |-> <<>>, tab |-> tab, st |-> proc]

Call(op, key, arg, help, site) ==
  [op |-> op, key |-> key, arg |-> arg, help |-> help, site |-> site]

\* What a call that goes through execution x leaves behind.
Finish(x, c) ==
  /\ Len(x.tab) <= MaxTab * TabUnit
  /\ tab' = x.tab
  /\ proc' = x.st
  /\ out' = x.out
  /\ call' = c

\* Where the manager's own warnings are written from.
ManagerSite == [file |-> <<"source", "general", "src", "GateMessageManager.cc">>,
                line |-> 1]

\* "message type=<" << key << "> unregistered"
Unregistered(key) == <<"message type=<", key, "> unregistered">>

\* --------------------------------------------------------------- registry
\* static void RegisterMessageType(std::string key, std::string help,
\*                                 unsigned char default_level = 9)
RegisterMessageType(key, help, default_level) ==
  /\ proc = "running"
  /\ mMessageLevel' = MapPut(mMessageLevel, key, ToUChar(default_level))
  /\ mMessageHelp' = MapPut(mMessageHelp, key, help)
  /\ Finish(Start, Call("RegisterMessageType", key, default_level, help, NoSite))
  /\ ret' = NotFound
  /\ UNCHANGED mAllLevel

\* The level map after SetMessageLevel(key, level).
SetLevelCreating(m, key, level) == MapPut(m, key, level)

SetLevelIn(m, key, level) ==
  IF key \in DOMAIN m THEN [m EXCEPT ![key] = level] ELSE m

\* static void SetMessageLevel(std::string key, unsigned char level)
SetMessageLevel(key, level) ==
  /\ proc = "running"
  /\ mMessageLevel' = SetLevelIn(mMessageLevel, key, ToUChar(level))
  /\ Finish(IF key \in DOMAIN mMessageLevel
              THEN Start
              ELSE GateWarning(Start, Unregistered(key), ManagerSite),
            Call("SetMessageLevel", key, level, "", NoSite))
  /\ ret' = NotFound
  /\ UNCHANGED <<mMessageHelp, mAllLevel>>

\* A call of GetMessageLevel(key) by the program.
GetLevel(key) ==
  /\ proc = "running"
  /\ ret' = GetMessageLevel(key)
  /\ Finish(Start, Call("GetMessageLevel", key, 0, "", NoSite))
  /\ UNCHANGED <<mMessageLevel, mMessageHelp, mAllLevel>>

\* ------------------------------------------------------------ call sites
\* A macro or a static tabulation method used at a call site: x is the
\* execution it goes through.
Use(x, c) ==
  /\ proc = "running"
  /\ Finish(x, c)
  /\ ret' = NotFound
  /\ UNCHANGED <<mMessageLevel, mMessageHelp, mAllLevel>>

DoGateMessage ==
  \E k \in Keys, v \in Values, s \in MessageSites :
    Use(GateMessage(Start, k, v, s), Call("GateMessage", k, v, "", s))

DoGateMessageCont ==
  \E k \in Keys, v \in Values, s \in MessageSites :
    Use(GateMessageCont(Start, k, v, s), Call("GateMessageCont", k, v, "", s))

DoGateMessageInc ==
  \E k \in Keys, v \in Values, s \in MessageSites :
    Use(GateMessageInc(Start, k, v, s), Call("GateMessageInc", k, v, "", s))

DoGateMessageDec ==
  \E k \in Keys, v \in Values, s \in MessageSites :
    Use(GateMessageDec(Start, k, v, s), Call("GateMessageDec", k, v, "", s))

DoGateIncTab ==
  \E k \in Keys, v \in Values, s \in MessageSites :
    Use(GateIncTab(Start, k, v, s), Call("GateIncTab", k, v, "", s))

DoGateDecTab ==
  \E k \in Keys, v \in Values, s \in MessageSites :
    Use(GateDecTab(Start, k, v, s), Call("GateDecTab", k, v, "", s))

DoGateResetTab == Use(GateResetTab(Start), Call("GateResetTab", "", 0, "", NoSite))

DoIncTab == Use(IncTab(Start), Call("IncTab", "", 0, "", NoSite))

DoDecTab == Use(DecTab(Start), Call("DecTab", "", 0, "", NoSite))

DoResetTab == Use(ResetTab(Start), Call("ResetTab", "", 0, "", NoSite))

DoGateWarning ==
  \E s \in Sites :
    Use(GateWarning(Start, Payload, s), Call("GateWarning", "", 0, "", s))

DoGateError ==
  \E s \in Sites : Use(GateError(Start, s), Call("GateError", "", 0, "", s))

DoGateGlobalError ==
  \E s \in Sites :
    Use(GateGlobalError(Start, s), Call("GateGlobalError", "", 0, "", s))

DoRegister ==
  \E k \in Keys, h \in Helps, d \in LevelArgs \cup {DefaultLevel} :
    RegisterMessageType(k, h, d)

DoSetLevel == \E k \in Keys, l \in LevelArgs : SetMessageLevel(k, l)

DoGetLevel == \E k \in Keys : GetLevel(k)

AnyCall ==
  \/ DoRegister
  \/ DoSetLevel
  \/ DoGetLevel
  \/ DoGateMessage
  \/ DoGateMessageCont
  \/ DoGateMessageInc
  \/ DoGateMessageDec
  \/ DoGateIncTab
  \/ DoGateDecTab
  \/ DoGateResetTab
  \/ DoIncTab
  \/ DoDecTab
  \/ DoResetTab
  \/ DoGateWarning
  \/ DoGateError
  \/ DoGateGlobalError

\* The program calls the facility in any order; no nested sequence and no pair
\* of callers is followed.
Next == AnyCall /\ UNCHANGED <<scopes, callers>>

Spec == Init /\ [][Next]_vars

\* ================================================================= claims
\* The events of a sequence o that satisfy P.
Count(o, P(_)) == Cardinality({i \in 1..Len(o) : P(o[i])})

IsPayload(e) == e.ev = "cout" /\ e.kind = "message"
IsWarning(e) == e.ev = "cout" /\ e.kind = "warning"
IsWhere(e) == e.ev = "cout" /\ e.kind = "where"

\* The call wrote its payload.
Emitted == Count(out, IsPayload) > 0

Registered(key) == key \in DOMAIN mMessageLevel

\* The macros of the informational channel that write a payload.
MessageOps == {"GateMessage", "GateMessageCont", "GateMessageInc", "GateMessageDec"}

\* C1: a GateMessage on a registered key with threshold T and requested level L
\* writes its payload if and only if L <= T, whatever Register and SetLevel
\* calls came before.
C1_EmitIffLevelAtMostThreshold ==
  (call.op = "GateMessage" /\ Registered(call.key))
    => (Emitted <=> call.arg <= mMessageLevel[call.key])

\* C1 witness: a message at exactly the threshold was written.
C1_Witness ==
  /\ call.op = "GateMessage"
  /\ Registered(call.key)
  /\ call.arg = mMessageLevel[call.key]
  /\ call.arg > 0
  /\ Emitted

\* C2 as stated, in the states where "Warning" has a level: a message macro on
\* an unregistered key writes no payload and exactly one warning, whatever
\* the level of "Warning".
C2_Original ==
  (call.op \in MessageOps /\ ~Registered(call.key) /\ Registered("Warning"))
    => (~Emitted /\ Count(out, IsWarning) = 1)

\* C2 amended: a message macro on an unregistered key writes no payload; it
\* writes exactly one "message type unknown" warning when the level of
\* "Warning" is at least 1, and no warning when that level is 0 or "Warning"
\* is not registered.
C2_UnknownKeyWarnsWhenWarningsOn ==
  (call.op \in MessageOps /\ ~Registered(call.key))
    => /\ ~Emitted
       /\ Count(out, IsWarning) = (IF GetMessageLevel("Warning") >= 1 THEN 1 ELSE 0)
       /\ \A i \in 1..Len(out) : IsWarning(out[i]) => out[i].text = UnknownType(call.key)

\* C2 witness: an unknown key while warnings are on, and one warning written.
C2_Witness ==
  /\ call.op \in MessageOps
  /\ ~Registered(call.key)
  /\ GetMessageLevel("Warning") >= 1
  /\ Count(out, IsWarning) = 1

\* C3: right after SetMessageLevel(key, level) on a registered key with level
\* in [0,255], GetMessageLevel(key) is level, whatever the other levels and
\* mAllLevel are.
C3_GetAfterSet ==
  (call.op = "SetMessageLevel" /\ Registered(call.key) /\ call.arg \in 0..UCharMax)
    => GetMessageLevel(call.key) = call.arg

\* C3 witness: a level was set below mAllLevel while another key has another level.
C3_Witness ==
  /\ call.op = "SetMessageLevel"
  /\ Registered(call.key)
  /\ call.arg \in 0..UCharMax
  /\ call.arg < mAllLevel
  /\ \E k \in DOMAIN mMessageLevel : mMessageLevel[k] # call.arg

\* The tabulation methods called directly.
TabOps == {"IncTab", "DecTab", "ResetTab"}

\* C4: no IncTab, DecTab or ResetTab call fails, the depth is never negative,
\* and DecTab at depth 0 leaves the depth at 0.
C4_TabCallsNeverFail ==
  [][call'.op \in TabOps
       => /\ proc' = "running"
          /\ Len(tab') >= 0
          /\ (call'.op = "DecTab" /\ Len(tab) = 0 => Len(tab') = 0)]_vars

\* C4 witness: DecTab was called and the depth is 0.
C4_Witness == call.op = "DecTab" /\ tab = <<>> /\ proc = "running"

\* The prefix written between the code and the payload of the message.
Prefix == LET i == CHOOSE i \in 1..Len(out) : IsPayload(out[i]) IN out[i].space

\* C5 as stated: after three IncTab from depth 0 the message written by
\* GateMessage carries a prefix of exactly three tabulation units.
C5_Original ==
  (call.op = "GateMessage" /\ Emitted /\ tab = Spaces(3 * TabUnit))
    => Prefix = Spaces(3 * TabUnit)

\* The level of the "Warning" pseudo-category.
W == GetMessageLevel("Warning")

\* C6: what GateWarning writes depends on W alone: nothing when W = 0, the
\* marked message text alone when W = 1, the text followed by one file/line
\* suffix of the call site when W >= 2.
C6_WarningByLevel ==
  call.op = "GateWarning"
    => /\ W = 0 => out = <<>>
       /\ W = 1 => out = <<Event("cout", "warning", <<>>, <<>>, Payload, NoSite)>>
       /\ W >= 2 => out = <<Event("cout", "warning", <<>>, <<>>, Payload, NoSite),
                            Event("cout", "where", <<>>, <<>>, <<>>, call.site)>>

\* C6 witness: a warning at level 1, text only.
C6_Witness == call.op = "GateWarning" /\ W = 1 /\ Len(out) = 1

\* The two fatal-error macros.
FatalOps == {"GateError", "GateGlobalError"}

IsFatalWrite(e) == e.ev \in {"cout", "G4cerr"} /\ e.kind = "error"
IsStop(e) == e.ev \in {"exit", "abort"}

C8_OnlyFatalStops ==
  proc # "running" => (call.op \in FatalOps /\ proc \in {"exited", "aborted"})

\* C8 witness: the process runs on after a message of unknown type was
\* refused with a warning and a file/line suffix.
C8_Witness ==
  /\ proc = "running"
  /\ call.op \in MessageOps
  /\ ~Registered(call.key)
  /\ Count(out, IsWhere) = 1

\* C9: SetMessageLevel on a key that is not registered creates no entry,
\* leaves every level and help text as it was and does not end the process.
C9_SetLevelUnknownKeyChangesNothing ==
  [][\A k \in Keys :
       (call'.op = "SetMessageLevel" /\ call'.key = k /\ ~Registered(k))
         => /\ mMessageLevel' = mMessageLevel
            /\ mMessageHelp' = mMessageHelp
            /\ GetMessageLevel(k)' = NotFound
            /\ proc' = "running"]_vars

\* C9 witness: SetMessageLevel was called on an unknown key while another
\* key is registered.
C9_Witness ==
  /\ call.op = "SetMessageLevel"
  /\ ~Registered(call.key)
  /\ DOMAIN mMessageLevel # {}

\* C10: GetMessageLevel returns the negative NotFound if and only if the key
\* was never registered, and a value in [0,255] for a registered key.
C10_NotFoundIffUnregistered ==
  call.op = "GetMessageLevel"
    => /\ NotFound < 0
       /\ ret = NotFound <=> ~Registered(call.key)
       /\ Registered(call.key) => ret \in 0..UCharMax

\* C10 witness: NotFound was returned while another key holds level 255.
C10_Witness ==
  /\ call.op = "GetMessageLevel"
  /\ ret = NotFound
  /\ \E k \in DOMAIN mMessageLevel : mMessageLevel[k] = UCharMax

\* C11: RegisterMessageType never fails on a duplicate key and the last
\* registration wins: right after Register(key, help, d) GetMessageLevel(key)
\* is d (9 when the level is omitted) and the help of key is help, whether or
\* not key was registered before; key holds one entry and no other key changes.
C11_LastRegistrationWins ==
  [][\A k \in Keys :
       /\ (call'.op = "RegisterMessageType" /\ call'.key = k
             /\ call'.arg \in 0..UCharMax)
            => /\ proc' = "running"
               /\ GetMessageLevel(k)' = call'.arg
               /\ mMessageHelp'[k] = call'.help
               /\ DOMAIN mMessageLevel' = DOMAIN mMessageLevel \cup {k}
               /\ DOMAIN mMessageHelp' = DOMAIN mMessageLevel'
               /\ \A o \in DOMAIN mMessageLevel \ {k} :
                    /\ mMessageLevel'[o] = mMessageLevel[o]
                    /\ mMessageHelp'[o] = mMessageHelp[o]
       /\ (\E h \in Helps : RegisterMessageType(k, h, DefaultLevel))
            => GetMessageLevel(k)' = 9]_vars

\* C11 witness: a key registered again holds the default level 9 and the
\* help of the last registration.
C11_Witness ==
  /\ call.op = "RegisterMessageType"
  /\ call.arg = DefaultLevel
  /\ call.help = "h2"
  /\ Registered(call.key)
  /\ mMessageLevel[call.key] = 9
  /\ mMessageHelp[call.key] = "h2"
  /\ Cardinality(DOMAIN mMessageLevel) = Cardinality(Keys)

\* The macros behind the guard GateOnMessageLevel.
GuardedOps == MessageOps \cup {"GateIncTab", "GateDecTab"}

\* The call wrote the warning that the type `key' is unknown.
WarnedUnknown(o, key) ==
  \E i \in 1..Len(o) : IsWarning(o[i]) /\ o[i].text = UnknownType(key)

\* C12 as stated: the "message type unknown" warning of a key is written at
\* most once over all calls; so a call that wrote it is never followed by a
\* call that writes it again.
C12_Original ==
  [][\A k \in Keys : WarnedUnknown(out, k) => ~WarnedUnknown(out', k)]_vars

\* C12 amended: the warning is written by every call of a guarded macro on an
\* unregistered key while the level of "Warning" is at least 1, once per call,
\* also when the call before wrote the same warning.
C12_WarnsOnEveryCall ==
  [][\A k \in Keys :
       (call'.op \in GuardedOps /\ call'.key = k /\ ~Registered(k) /\ W >= 1)
         => /\ WarnedUnknown(out', k)
            /\ Cardinality({i \in 1..Len(out') : IsWarning(out'[i])}) = 1]_vars

\* C12 witness: a tabulation macro on an unknown key wrote the warning.
C12_Witness ==
  /\ call.op = "GateIncTab"
  /\ ~Registered(call.key)
  /\ WarnedUnknown(out, call.key)

\* The event of a tabulation method.
IsTab(e, method) == e.ev = "tab" /\ e.kind = method

Max(a, b) == IF a >= b THEN a ELSE b

C14_GateErrorNeverReachesG4Exception ==
  call.op = "GateError"
    => /\ proc = "exited"
       /\ Len(out) = 2
       /\ out[1].ev = "cout" /\ out[1].kind = "error"
       /\ out[2].ev = "exit"
       /\ \A i \in 1..Len(out) : out[i].ev \notin {"G4cerr", "abort"}

\* C14 witness: GateError from a file given without directory ended by exit.
C14_Witness ==
  /\ call.op = "GateError"
  /\ Len(call.site.file) = 1
  /\ out[Len(out)].ev = "exit"

\* The depth a tabulation string of length n stands for.
Depth(n) == n \div TabUnit

\* C15: the tabulation string refines a counter clamped at zero: it holds
\* only spaces, its length is 3 x depth, and IncTab, DecTab and ResetTab move
\* the depth to depth+1, max(depth-1, 0) and 0; DecTab at length 0, where
\* length()-3 wraps around, leaves the empty string.
C15_TabRefinesClampedCounter ==
  /\ [](/\ \A i \in 1..Len(tab) : tab[i] = " "
        /\ Len(tab) = 3 * Depth(Len(tab)))
  /\ [][/\ call'.op = "IncTab" => Len(tab') = 3 * (Depth(Len(tab)) + 1)
        /\ call'.op = "DecTab" => Len(tab') = 3 * Max(Depth(Len(tab)) - 1, 0)
        /\ call'.op = "ResetTab" => Len(tab') = 0
        /\ call'.op \in TabOps => proc' = "running"]_vars

\* C15 witness: DecTab ran on the empty string, where length()-3 wrapped
\* around to a count beyond the length, and left it empty.
C15_Witness ==
  /\ call.op = "DecTab"
  /\ Len(out) = 1
  /\ IsTab(out[1], "DecTab")
  /\ out[1].space = <<>>
  /\ SizeSub(Len(tab), TabUnit) > Len(tab)

\* C16: ResetTab / GateResetTab sets the depth to zero from every depth, is
\* gated by no category or level and changes nothing in the registry.
C16_ResetAlwaysZeroRegistryKept ==
  [][call'.op \in {"ResetTab", "GateResetTab"}
       => /\ tab' = <<>>
          /\ Len(out') = 1
          /\ IsTab(out'[1], "ResetTab")
          /\ proc' = "running"
          /\ mMessageLevel' = mMessageLevel
          /\ mMessageHelp' = mMessageHelp]_vars

\* C16 witness: GateResetTab ran while no category is registered.
C16_Witness ==
  /\ call.op = "GateResetTab"
  /\ DOMAIN mMessageLevel = {}
  /\ tab = <<>>
  /\ Len(out) = 1

\* The macros that change the tabulation.
TabMacros == {"GateMessageInc", "GateMessageDec", "GateIncTab", "GateDecTab"}

\* C17: GateMessageInc, GateMessageDec, GateIncTab and GateDecTab change the
\* tabulation only when the filter passes: on an unregistered key or a level
\* above the threshold they leave the depth as it was and write no payload.
C17_TabMacrosGated ==
  [][\A k \in Keys :
       (call'.op \in TabMacros /\ call'.key = k
          /\ (~Registered(k) \/ call'.arg > mMessageLevel[k]))
         => /\ tab' = tab
            /\ ~Emitted'
            /\ \A i \in 1..Len(out') : out'[i].ev # "tab"]_vars

\* C17 witness: GateDecTab above the threshold left a depth above 0 alone.
C17_Witness ==
  /\ call.op = "GateDecTab"
  /\ Registered(call.key)
  /\ call.arg > mMessageLevel[call.key]
  /\ Len(tab) >= TabUnit
  /\ out = <<>>

\* ------------------------------------------------- nested Inc/Dec sequences
\* The registries RegisterMessageType and SetMessageLevel calls lead to.
Registries ==
  UNION {[D -> 0..MaxLevel] : D \in SUBSET Keys}

\* A nested sequence starts in any state of the registry, at any depth that
\* leaves room for MaxScopes open scopes.
ScopeInit ==
  /\ mMessageLevel \in Registries
  /\ mMessageHelp = [k \in DOMAIN mMessageLevel |-> "h1"]
  /\ mAllLevel \in AllLevels
  /\ tab \in {Spaces(d * TabUnit) : d \in 0..(MaxTab - MaxScopes)}
  /\ proc = "running"
  /\ call = [op |-> "none", key |-> "", arg |-> 0, help |-> "", site |-> NoSite]
  /\ out = <<>>
  /\ ret = NotFound
  /\ scopes = <<>>
  /\ callers = [pc |-> <<"start", "start">>, base |-> Len(tab)]

\* A scope is entered with an increment variant on (key, value).
Enter(key, value) ==
  /\ Len(scopes) < MaxScopes
  /\ scopes' = Append(scopes, [key |-> key, value |-> value, depth |-> Len(tab)])
  /\ UNCHANGED callers

ScopeMessageInc ==
  \E k \in Keys, v \in Values, s \in MessageSites :
    /\ Use(GateMessageInc(Start, k, v, s), Call("GateMessageInc", k, v, "", s))
    /\ Enter(k, v)

ScopeIncTab ==
  \E k \in Keys, v \in Values, s \in MessageSites :
    /\ Use(GateIncTab(Start, k, v, s), Call("GateIncTab", k, v, "", s))
    /\ Enter(k, v)

\* The innermost scope, which the next decrement variant closes with the
\* (key, value) it was entered with.
Innermost == scopes[Len(scopes)]

Leave ==
  /\ scopes' = SubSeq(scopes, 1, Len(scopes) - 1)
  /\ UNCHANGED callers

ScopeMessageDec ==
  /\ scopes # <<>>
  /\ \E s \in MessageSites :
       Use(GateMessageDec(Start, Innermost.key, Innermost.value, s),
           Call("GateMessageDec", Innermost.key, Innermost.value, "", s))
  /\ Leave

ScopeDecTab ==
  /\ scopes # <<>>
  /\ \E s \in MessageSites :
       Use(GateDecTab(Start, Innermost.key, Innermost.value, s),
           Call("GateDecTab", Innermost.key, Innermost.value, "", s))
  /\ Leave

\* A message written inside or between scopes.
ScopeMessage == DoGateMessage /\ UNCHANGED <<scopes, callers>>

ScopeNext ==
  \/ ScopeMessageInc
  \/ ScopeIncTab
  \/ ScopeMessageDec
  \/ ScopeDecTab
  \/ ScopeMessage

ScopeSpec == ScopeInit /\ [][ScopeNext]_vars

\* C18: a properly nested sequence of increment / decrement variants, each
\* pair on the same (key, level) and with no SetLevel, Register or ResetTab
\* inside, gives back the depth it started from: every scope is left at the
\* depth it was entered at, whether its pair passes the filter or not.
C18_BalancedScopesRestoreDepth ==
  [][Len(scopes') < Len(scopes) => Len(tab') = Innermost.depth]_vars

\* C18 witness: a pair that passes the filter was entered at a depth above 0
\* and left; no scope is open.
C18_Witness ==
  /\ scopes = <<>>
  /\ call.op = "GateMessageDec"
  /\ Emitted
  /\ Len(tab) >= TabUnit

\* ------------------------------------------------ two callers, serialized
Callers == {1, 2}

\* Both callers are about to enter their scope; the depth leaves room for both.
CallerInit ==
  /\ mMessageLevel \in Registries
  /\ mMessageHelp = [k \in DOMAIN mMessageLevel |-> "h1"]
  /\ mAllLevel \in AllLevels
  /\ tab \in {Spaces(d * TabUnit) : d \in 0..(MaxTab - 2)}
  /\ proc = "running"
  /\ call = [op |-> "none", key |-> "", arg |-> 0, help |-> "", site |-> NoSite]
  /\ out = <<>>
  /\ ret = NotFound
  /\ scopes = <<>>
  /\ callers = [pc |-> <<"start", "start">>, base |-> Len(tab)]

\* The filter passes for (key, value).
Passes(key, value) == Registered(key) /\ value <= mMessageLevel[key]

Move(c, from, to) ==
  /\ callers.pc[c] = from
  /\ callers' = [callers EXCEPT !.pc[c] = to]
  /\ UNCHANGED scopes

\* A caller enters its scope: IncTab() itself, or GateIncTab where the filter
\* passes.  Each call runs as a whole before the other caller's next call.
CallerIncTab(c) ==
  /\ Use(IncTab(Start), Call("IncTab", "", 0, "", NoSite))
  /\ Move(c, "start", "inside")

CallerGateIncTab(c) ==
  /\ \E k \in Keys, v \in Values, s \in MessageSites :
       /\ Passes(k, v)
       /\ Use(GateIncTab(Start, k, v, s), Call("GateIncTab", k, v, "", s))
  /\ Move(c, "start", "inside")

\* A caller leaves its scope: DecTab() itself, or GateDecTab where the filter
\* passes.
CallerDecTab(c) ==
  /\ Use(DecTab(Start), Call("DecTab", "", 0, "", NoSite))
  /\ Move(c, "inside", "done")

CallerGateDecTab(c) ==
  /\ \E k \in Keys, v \in Values, s \in MessageSites :
       /\ Passes(k, v)
       /\ Use(GateDecTab(Start, k, v, s), Call("GateDecTab", k, v, "", s))
  /\ Move(c, "inside", "done")

CallerNext ==
  \E c \in Callers :
    \/ CallerIncTab(c)
    \/ CallerGateIncTab(c)
    \/ CallerDecTab(c)
    \/ CallerGateDecTab(c)

CallerSpec == CallerInit /\ [][CallerNext]_vars

BothDone == \A c \in Callers : callers.pc[c] = "done"

\* C19: with every IncTab / DecTab call atomic, two callers that each run a
\* balanced scope on the shared tabulation keep the depth non-negative in
\* every interleaving, and the depth is back at its initial value once both
\* have finished.
C19_TwoCallersRestoreDepth ==
  /\ proc = "running"
  /\ Len(tab) >= 0
  /\ Len(tab) >= callers.base
  /\ BothDone => Len(tab) = callers.base

\* C19 witness: both callers have finished after caller 2 entered and left
\* its scope while caller 1 was inside its own, from a depth above 0.
C19_Witness ==
  /\ BothDone
  /\ callers.base >= TabUnit
  /\ call.op = "GateDecTab"
  /\ tab = Spaces(callers.base)

====
